---------------------------- MODULE Spec2Model ----------------------------
(***************************************************************************)
(* Model of the airdrop canister (src/airdrop_canister): the share-based  *)
(* token distribution engine, its validate_* twins and the ledger calls.   *)
(*                                                                         *)
(* One action is one message execution of the canister: an entry point    *)
(* runs from its call (or from the reply to its pending ledger call) up   *)
(* to its next ledger call or to its return.  Ledger answers are inputs.  *)
(***************************************************************************)
EXTENDS Integers, Sequences, FiniteSets, TLC

\* ------------------------------------------------------------------ bounds
MaxPrincipal == 2       \* principals are 0..MaxPrincipal
MaxShare == 2           \* shares passed to add_share_allocations are 0..MaxShare
MaxAllocs == 1          \* longest Vec passed to add_share_allocations
MaxBalance == 4         \* ledger balance answers are 0..MaxBalance
MaxFee == 1             \* ledger fee answers are 0..MaxFee
MaxCalls == 4           \* entry-point calls made in one behaviour
NumProcs == 2           \* distribute / validate_distribute calls in flight at once
MaxQueries == 1         \* paged list queries made in one behaviour

\* ------------------------------------------------------------- principals
Anonymous == 0
Principals == 0..MaxPrincipal
Controllers == {1}
Procs == 1..NumProcs
\* the callers: the controller and the principals that are not controllers
Callers == Principals \ {Anonymous}

is_controller(caller) == caller \in Controllers

\* ------------------------------------------------------------------- maps
EmptyMap == [x \in {} |-> 0]
Put(m, k, v) == [x \in (DOMAIN m) \cup {k} |-> IF x = k THEN v ELSE m[x]]
Remove(m, k) == [x \in (DOMAIN m) \ {k} |-> m[x]]

\* ---------------------------------------------------------- ledger answers
Answer(v) == [ok |-> TRUE, val |-> v]
Failure == [ok |-> FALSE, val |-> 0]
BalanceAnswers == {Failure} \cup {Answer(v) : v \in 0..MaxBalance}
FeeAnswers == {Failure} \cup {Answer(v) : v \in 0..MaxFee}

NoCall == [method |-> "none", to |-> Anonymous, amount |-> 0]
LedgerCall(m, t, a) == [method |-> m, to |-> t, amount |-> a]

VARIABLES
    TOKEN_PID,                  \* the configured ledger canister
    SHARE_ALLOCATIONS,          \* participant -> share
    TOKEN_ALLOCATIONS,          \* participant -> tokens paid
    INTERRUPTED_DISTRIBUTIONS,  \* participant -> tokens parked
    proc,                       \* the async calls in flight, with their locals
    ret,                        \* what the last message execution returned
    sent,                       \* the ledger call the last message execution issued
    ncalls,                     \* entry-point calls made so far
    consumed                    \* participant -> distribute runs that attempted a transfer
                                \* for its share entry since add_share_allocations put it

vars == <<TOKEN_PID, SHARE_ALLOCATIONS, TOKEN_ALLOCATIONS,
          INTERRUPTED_DISTRIBUTIONS, proc, ret, sent, ncalls, consumed>>

store == <<TOKEN_PID, SHARE_ALLOCATIONS, TOKEN_ALLOCATIONS, INTERRUPTED_DISTRIBUTIONS>>

\* ------------------------------------------------------------------ utils
\* an only_controller that lets every caller through
only_controller_open(caller) == "Ok"

only_controller(caller) == IF ~is_controller(caller) THEN "Unauthorized" ELSE "Ok"

not_anonymous(id) == IF id = Anonymous THEN "ConfigurationError" ELSE "Ok"

handle_intercanister_call(ans) == IF ans.ok THEN "Ok" ELSE "Unknown:remote"

\* ------------------------------------------------------------------ state
add_share_allocation(m, user, amount) == Put(m, user, amount)

\* allocations.iter().for_each(add_share_allocation)
RECURSIVE InsertAll(_, _)
InsertAll(m, allocations) ==
    IF allocations = <<>> THEN m
    ELSE InsertAll(add_share_allocation(m, Head(allocations)[1], Head(allocations)[2]),
                   Tail(allocations))

add_token_allocation(m, user, amount) == Put(m, user, amount)

\* get_all_share_allocations: the entries of the HashMap in any order
get_all_share_allocations(m) ==
    LET n == Cardinality(DOMAIN m)
        orders == {f \in [1..n -> DOMAIN m] : \A i, j \in 1..n : i # j => f[i] # f[j]}
    IN {[i \in 1..n |-> <<f[i], m[f[i]]>>] : f \in orders}

RECURSIVE SumShares(_)
SumShares(s) == IF s = <<>> THEN 0 ELSE Head(s)[2] + SumShares(Tail(s))

Users(s, from) == {s[i][1] : i \in from..Len(s)}

\* ------------------------------------------------- the calls in flight
IdleProc ==
    [pc |-> "idle", op |-> "none", caller |-> Anonymous,
     total_tokens |-> 0, share_allocations |-> <<>>, fee |-> 0,
     token_per_share |-> 0, idx |-> 0, tries |-> 0,
     calls |-> 0,        \* ledger transfer calls issued for the current participant
     attempted |-> {},   \* participants transfer_tokens was called for
     succeeded |-> {},   \* participants whose transfer the ledger confirmed
     parked |-> {},      \* participants parked by this call
     paid |-> 0,         \* amounts of the transfers the ledger confirmed, plus their fees
     added |-> FALSE,    \* add_share_allocations ran while this call was suspended
     inserted |-> EmptyMap]  \* the shares it put after this call took its snapshot

NoRet ==
    [op |-> "none", caller |-> Anonymous, id |-> Anonymous, allocations |-> <<>>,
     result |-> "none", run |-> IdleProc]

\* a message execution of `op` that ends with `result`
\* ("Suspended": it stopped at a ledger call and has not returned)
Returns(op, caller, id, allocations, result, run) ==
    [op |-> op, caller |-> caller, id |-> id, allocations |-> allocations,
     result |-> result, run |-> run]

FreeSlot(p) == /\ proc[p].pc = "idle"
               /\ \A q \in Procs : q < p => proc[q].pc # "idle"

Allocations ==
    UNION {[1..n -> Principals \X (0..MaxShare)] : n \in 0..MaxAllocs}

Init ==
    /\ TOKEN_PID = Anonymous
    /\ SHARE_ALLOCATIONS = EmptyMap
    /\ TOKEN_ALLOCATIONS = EmptyMap
    /\ INTERRUPTED_DISTRIBUTIONS = EmptyMap
    /\ proc = [p \in Procs |-> IdleProc]
    /\ ret = NoRet
    /\ sent = NoCall
    /\ ncalls = 0
    /\ consumed = EmptyMap

\* ------------------------------------------- synchronous entry points
set_token_canister_id_result(caller, id) == only_controller(caller)

validate_set_token_canister_id_result(caller, id) ==
    IF only_controller(caller) # "Ok" THEN only_controller(caller)
    ELSE IF id = Anonymous THEN "ConfigurationError"
    ELSE "Ok"

add_share_allocations_result(caller, allocations) == only_controller(caller)

validate_add_share_allocations_result(caller, allocations) ==
    IF only_controller(caller) # "Ok" THEN only_controller(caller)
    ELSE IF \E i \in 1..Len(allocations) :
                allocations[i][2] = 0 \/ allocations[i][1] = Anonymous
         THEN "ConfigurationError"
    ELSE "Ok"

reset_result(caller) == only_controller(caller)

validate_reset_result(caller) == only_controller(caller)

set_token_canister_id(caller, id) ==
    /\ ncalls < MaxCalls
    /\ ncalls' = ncalls + 1
    /\ TOKEN_PID' = IF set_token_canister_id_result(caller, id) = "Ok"
                    THEN id ELSE TOKEN_PID
    /\ ret' = Returns("set_token_canister_id", caller, id, <<>>,
                      set_token_canister_id_result(caller, id), IdleProc)
    /\ sent' = NoCall
    /\ UNCHANGED <<SHARE_ALLOCATIONS, TOKEN_ALLOCATIONS, INTERRUPTED_DISTRIBUTIONS, proc,
                   consumed>>

validate_set_token_canister_id(caller, id) ==
    /\ ncalls < MaxCalls
    /\ ncalls' = ncalls + 1
    /\ ret' = Returns("validate_set_token_canister_id", caller, id, <<>>,
                      validate_set_token_canister_id_result(caller, id), IdleProc)
    /\ sent' = NoCall
    /\ UNCHANGED <<store, proc, consumed>>

add_share_allocations(caller, allocations) ==
    /\ ncalls < MaxCalls
    /\ ncalls' = ncalls + 1
    /\ IF add_share_allocations_result(caller, allocations) = "Ok"
       THEN /\ SHARE_ALLOCATIONS' = InsertAll(SHARE_ALLOCATIONS, allocations)
            /\ proc' = [p \in Procs |->
                          IF proc[p].op = "distribute"
                          THEN [proc[p] EXCEPT
                                  !.added = TRUE,
                                  !.inserted = IF proc[p].pc \in {"fee", "transfer"}
                                               THEN InsertAll(@, allocations) ELSE @]
                          ELSE proc[p]]
            /\ consumed' = [u \in (DOMAIN consumed) \ Users(allocations, 1) |-> consumed[u]]
       ELSE UNCHANGED <<SHARE_ALLOCATIONS, proc, consumed>>
    /\ ret' = Returns("add_share_allocations", caller, Anonymous, allocations,
                      add_share_allocations_result(caller, allocations), IdleProc)
    /\ sent' = NoCall
    /\ UNCHANGED <<TOKEN_PID, TOKEN_ALLOCATIONS, INTERRUPTED_DISTRIBUTIONS>>

validate_add_share_allocations(caller, allocations) ==
    /\ ncalls < MaxCalls
    /\ ncalls' = ncalls + 1
    /\ ret' = Returns("validate_add_share_allocations", caller, Anonymous, allocations,
                      validate_add_share_allocations_result(caller, allocations), IdleProc)
    /\ sent' = NoCall
    /\ UNCHANGED <<store, proc, consumed>>

\* clear_all: the ledger id, the token allocations and the share allocations
clear_all ==
    /\ TOKEN_PID' = Anonymous
    /\ TOKEN_ALLOCATIONS' = EmptyMap
    /\ SHARE_ALLOCATIONS' = EmptyMap
    /\ UNCHANGED INTERRUPTED_DISTRIBUTIONS

reset(caller) ==
    /\ ncalls < MaxCalls
    /\ ncalls' = ncalls + 1
    /\ IF reset_result(caller) = "Ok" THEN clear_all ELSE UNCHANGED store
    /\ ret' = Returns("reset", caller, Anonymous, <<>>, reset_result(caller), IdleProc)
    /\ sent' = NoCall
    /\ UNCHANGED <<proc, consumed>>

\* a validate_reset that resets
validate_reset_clearing(caller) ==
    /\ ncalls < MaxCalls
    /\ ncalls' = ncalls + 1
    /\ IF validate_reset_result(caller) = "Ok" THEN clear_all ELSE UNCHANGED store
    /\ ret' = Returns("validate_reset", caller, Anonymous, <<>>,
                      validate_reset_result(caller), IdleProc)
    /\ sent' = NoCall
    /\ UNCHANGED <<proc, consumed>>

validate_reset(caller) ==
    /\ ncalls < MaxCalls
    /\ ncalls' = ncalls + 1
    /\ ret' = Returns("validate_reset", caller, Anonymous, <<>>,
                      validate_reset_result(caller), IdleProc)
    /\ sent' = NoCall
    /\ UNCHANGED <<store, proc, consumed>>

\* ------------------------------------------------ distribute: the checks
\* Each operator is the decision of one message execution before the loop:
\* an error to return, "Trap", or "await" / "proceed" to go on.
token_balance_pre(pid) == IF not_anonymous(pid) # "Ok" THEN not_anonymous(pid) ELSE "await"

token_fee_pre(pid) == IF not_anonymous(pid) # "Ok" THEN not_anonymous(pid) ELSE "await"

\* the rate of the variant without fee accounting
token_per_share_no_fee(total_tokens, total_fee, shares_sum) ==
    total_tokens \div shares_sum

token_per_share_of(total_tokens, total_fee, shares_sum) ==
    (total_tokens - total_fee) \div shares_sum

distribute_entry(caller, pid) ==
    IF only_controller(caller) # "Ok" THEN only_controller(caller)
    ELSE token_balance_pre(pid)

distribute_on_balance(ans, share_allocations, pid) ==
    IF handle_intercanister_call(ans) # "Ok" THEN handle_intercanister_call(ans)
    ELSE IF Len(share_allocations) < 1 THEN "EmptyAllocationList"
    ELSE token_fee_pre(pid)

distribute_on_fee(total_tokens, share_allocations, ans) ==
    IF handle_intercanister_call(ans) # "Ok" THEN handle_intercanister_call(ans)
    ELSE LET shares_sum == SumShares(share_allocations)
             total_fee == Len(share_allocations) * ans.val
         IN IF total_fee > total_tokens THEN "Unknown:fees"
            ELSE IF shares_sum = 0 THEN "Trap"     \* Nat division by zero panics
            ELSE IF token_per_share_of(total_tokens, total_fee, shares_sum) = 0
                 THEN "Unknown:zero"
            ELSE "proceed"

validate_distribute_entry(caller, pid) ==
    IF only_controller(caller) # "Ok" THEN only_controller(caller)
    ELSE token_balance_pre(pid)

validate_distribute_on_balance(ans, share_allocations, pid) ==
    IF handle_intercanister_call(ans) # "Ok" THEN handle_intercanister_call(ans)
    ELSE IF Len(share_allocations) = 0 THEN "EmptyAllocationList"
    ELSE token_fee_pre(pid)

\* the checks of the variant without the zero-rate check
validate_distribute_on_fee_no_zero_check(total_tokens, share_allocations, ans) ==
    IF handle_intercanister_call(ans) # "Ok" THEN handle_intercanister_call(ans)
    ELSE LET shares_sum == SumShares(share_allocations)
             total_fee == Len(share_allocations) * ans.val
         IN IF total_fee > total_tokens THEN "Unknown:fees"
            ELSE IF shares_sum = 0 THEN "Trap"
            ELSE "Ok"

validate_distribute_on_fee(total_tokens, share_allocations, ans) ==
    IF handle_intercanister_call(ans) # "Ok" THEN handle_intercanister_call(ans)
    ELSE LET shares_sum == SumShares(share_allocations)
             total_fee == Len(share_allocations) * ans.val
         IN IF total_fee > total_tokens THEN "Unknown:fees"
            ELSE IF shares_sum = 0 THEN "Trap"     \* Nat division by zero panics
            ELSE IF token_per_share_of(total_tokens, total_fee, shares_sum) = 0
                 THEN "Unknown:zero"
            ELSE "Ok"

\* ------------------------------------------------- distribute: the loop
\* the variant that never gives a participant up
RetriesExhausted_never(tries) == FALSE

\* else if tries > 2
RetriesExhausted(tries) == tries > 2

\* the variant that pays every participant the rate itself
Tokens_flat(l, i) == l.token_per_share

\* let tokens = token_per_share.clone() * share
Tokens(l, i) == l.token_per_share * l.share_allocations[i][2]

\* every participant from i on is parked (the loop run without a ledger)
ParkFrom(intr, l, i) ==
    LET us == Users(l.share_allocations, i)
        at(u) == CHOOSE j \in i..Len(l.share_allocations) : l.share_allocations[j][1] = u
    IN [u \in (DOMAIN intr) \cup us |-> IF u \in us THEN Tokens(l, at(u)) ELSE intr[u]]

\* one more run has attempted a transfer for the share entries of `us`
Attempted(c, us) ==
    [u \in (DOMAIN c) \cup us |->
        IF u \in us THEN (IF u \in DOMAIN c THEN c[u] + 1 ELSE 1) ELSE c[u]]

\* The loop of distribute from participant i with `tries` failed tries, up to
\* its next ledger call or to the return of distribute.  transfer_tokens
\* calls the ledger unless the ledger id is anonymous, in which case it
\* fails at once: every try of every remaining participant fails then,
\* and they are all parked within the same message execution.
Resume(p, l, i, tries, intr) ==
    IF i > Len(l.share_allocations)
    THEN /\ proc' = [proc EXCEPT ![p] = IdleProc]
         /\ INTERRUPTED_DISTRIBUTIONS' = intr
         /\ ret' = Returns("distribute", l.caller, Anonymous, <<>>, "Ok", l)
         /\ sent' = NoCall
         /\ consumed' = consumed
    ELSE IF not_anonymous(TOKEN_PID) # "Ok"
    THEN /\ proc' = [proc EXCEPT ![p] = IdleProc]
         /\ INTERRUPTED_DISTRIBUTIONS' = ParkFrom(intr, l, i)
         /\ ret' = Returns("distribute", l.caller, Anonymous, <<>>, "Ok",
                           [l EXCEPT !.idx = Len(l.share_allocations) + 1,
                                     !.attempted = @ \cup Users(l.share_allocations, i),
                                     !.parked = @ \cup Users(l.share_allocations, i)])
         /\ sent' = NoCall
         /\ consumed' = Attempted(consumed, Users(l.share_allocations, i) \ l.attempted)
    ELSE /\ proc' = [proc EXCEPT ![p] =
                        [l EXCEPT !.pc = "transfer", !.idx = i, !.tries = tries,
                                  !.calls = IF i = l.idx THEN l.calls + 1 ELSE 1,
                                  !.attempted = @ \cup {l.share_allocations[i][1]}]]
         /\ INTERRUPTED_DISTRIBUTIONS' = intr
         /\ ret' = Returns("distribute", l.caller, Anonymous, <<>>, "Suspended", IdleProc)
         /\ sent' = LedgerCall("icrc1_transfer", l.share_allocations[i][1], Tokens(l, i))
         /\ consumed' = Attempted(consumed, {l.share_allocations[i][1]} \ l.attempted)

distribute_call(p, caller) ==
    /\ ncalls < MaxCalls
    /\ FreeSlot(p)
    /\ ncalls' = ncalls + 1
    /\ IF distribute_entry(caller, TOKEN_PID) = "await"
       THEN /\ proc' = [proc EXCEPT ![p] =
                           [IdleProc EXCEPT !.pc = "balance", !.op = "distribute",
                                            !.caller = caller]]
            /\ ret' = Returns("distribute", caller, Anonymous, <<>>, "Suspended", IdleProc)
            /\ sent' = LedgerCall("icrc1_balance_of", Anonymous, 0)
       ELSE /\ proc' = proc
            /\ ret' = Returns("distribute", caller, Anonymous, <<>>,
                              distribute_entry(caller, TOKEN_PID), IdleProc)
            /\ sent' = NoCall
    /\ UNCHANGED <<store, consumed>>

distribute_balance_reply(p, ans) ==
    /\ proc[p].op = "distribute"
    /\ proc[p].pc = "balance"
    /\ \E snapshot \in get_all_share_allocations(SHARE_ALLOCATIONS) :
         LET d == distribute_on_balance(ans, snapshot, TOKEN_PID)
             l == [proc[p] EXCEPT !.total_tokens = ans.val,
                                  !.share_allocations = snapshot]
         IN IF d = "await"
            THEN /\ proc' = [proc EXCEPT ![p] = [l EXCEPT !.pc = "fee"]]
                 /\ ret' = Returns("distribute", l.caller, Anonymous, <<>>, "Suspended", IdleProc)
                 /\ sent' = LedgerCall("icrc1_fee", Anonymous, 0)
            ELSE /\ proc' = [proc EXCEPT ![p] = IdleProc]
                 /\ ret' = Returns("distribute", l.caller, Anonymous, <<>>, d, proc[p])
                 /\ sent' = NoCall
    /\ UNCHANGED <<store, ncalls, consumed>>

distribute_fee_reply(p, ans) ==
    /\ proc[p].op = "distribute"
    /\ proc[p].pc = "fee"
    /\ LET l0 == proc[p]
           d == distribute_on_fee(l0.total_tokens, l0.share_allocations, ans)
       IN IF d = "proceed"
          THEN Resume(p,
                      [l0 EXCEPT !.fee = ans.val,
                                 !.token_per_share =
                                    token_per_share_of(l0.total_tokens,
                                                       Len(l0.share_allocations) * ans.val,
                                                       SumShares(l0.share_allocations))],
                      1, 0, INTERRUPTED_DISTRIBUTIONS)
          ELSE /\ proc' = [proc EXCEPT ![p] = IdleProc]
               /\ ret' = Returns("distribute", l0.caller, Anonymous, <<>>, d, l0)
               /\ sent' = NoCall
               /\ UNCHANGED <<INTERRUPTED_DISTRIBUTIONS, consumed>>
    /\ UNCHANGED <<TOKEN_PID, SHARE_ALLOCATIONS, TOKEN_ALLOCATIONS, ncalls>>

\* transfer_result.is_ok(): the share is removed and the receipt written
OnSuccess(p, l, user, tokens) ==
    /\ SHARE_ALLOCATIONS' = Remove(SHARE_ALLOCATIONS, user)
    /\ TOKEN_ALLOCATIONS' = add_token_allocation(TOKEN_ALLOCATIONS, user, tokens)
    /\ Resume(p, [l EXCEPT !.paid = @ + tokens + l.fee, !.succeeded = @ \cup {user}],
              l.idx + 1, 0, INTERRUPTED_DISTRIBUTIONS)

\* the variant that gives up the run: else if tries > 2 { return transfer_result }
OnExhausted_return(p, l, user, tokens) ==
    /\ UNCHANGED <<SHARE_ALLOCATIONS, TOKEN_ALLOCATIONS, INTERRUPTED_DISTRIBUTIONS, consumed>>
    /\ proc' = [proc EXCEPT ![p] = IdleProc]
    /\ ret' = Returns("distribute", l.caller, Anonymous, <<>>, "TokenCanisterError", l)
    /\ sent' = NoCall

\* else if tries > 2: the payout is parked and the loop goes to the next participant
OnExhausted(p, l, user, tokens) ==
    /\ UNCHANGED <<SHARE_ALLOCATIONS, TOKEN_ALLOCATIONS>>
    /\ Resume(p, [l EXCEPT !.parked = @ \cup {user}], l.idx + 1, 0,
              Put(INTERRUPTED_DISTRIBUTIONS, user, tokens))

\* tries += 1: the same participant is tried again
OnRetry(p, l) ==
    /\ UNCHANGED <<SHARE_ALLOCATIONS, TOKEN_ALLOCATIONS>>
    /\ Resume(p, l, l.idx, l.tries + 1, INTERRUPTED_DISTRIBUTIONS)

distribute_transfer_reply(p, ok) ==
    /\ proc[p].op = "distribute"
    /\ proc[p].pc = "transfer"
    /\ LET l == proc[p]
           user == l.share_allocations[l.idx][1]
           tokens == Tokens(l, l.idx)
       IN IF ok THEN OnSuccess(p, l, user, tokens)
          ELSE IF RetriesExhausted(l.tries) THEN OnExhausted(p, l, user, tokens)
          ELSE OnRetry(p, l)
    /\ UNCHANGED <<TOKEN_PID, ncalls>>

\* ----------------------------------------------------- validate_distribute
validate_distribute_call(p, caller) ==
    /\ ncalls < MaxCalls
    /\ FreeSlot(p)
    /\ ncalls' = ncalls + 1
    /\ IF validate_distribute_entry(caller, TOKEN_PID) = "await"
       THEN /\ proc' = [proc EXCEPT ![p] =
                           [IdleProc EXCEPT !.pc = "balance", !.op = "validate_distribute",
                                            !.caller = caller]]
            /\ ret' = Returns("validate_distribute", caller, Anonymous, <<>>,
                              "Suspended", IdleProc)
            /\ sent' = LedgerCall("icrc1_balance_of", Anonymous, 0)
       ELSE /\ proc' = proc
            /\ ret' = Returns("validate_distribute", caller, Anonymous, <<>>,
                              validate_distribute_entry(caller, TOKEN_PID), IdleProc)
            /\ sent' = NoCall
    /\ UNCHANGED <<store, consumed>>

validate_distribute_balance_reply(p, ans) ==
    /\ proc[p].op = "validate_distribute"
    /\ proc[p].pc = "balance"
    /\ \E snapshot \in get_all_share_allocations(SHARE_ALLOCATIONS) :
         LET d == validate_distribute_on_balance(ans, snapshot, TOKEN_PID)
             l == [proc[p] EXCEPT !.total_tokens = ans.val,
                                  !.share_allocations = snapshot]
         IN IF d = "await"
            THEN /\ proc' = [proc EXCEPT ![p] = [l EXCEPT !.pc = "fee"]]
                 /\ ret' = Returns("validate_distribute", l.caller, Anonymous, <<>>,
                                   "Suspended", IdleProc)
                 /\ sent' = LedgerCall("icrc1_fee", Anonymous, 0)
            ELSE /\ proc' = [proc EXCEPT ![p] = IdleProc]
                 /\ ret' = Returns("validate_distribute", l.caller, Anonymous, <<>>, d, proc[p])
                 /\ sent' = NoCall
    /\ UNCHANGED <<store, ncalls, consumed>>

validate_distribute_fee_reply(p, ans) ==
    /\ proc[p].op = "validate_distribute"
    /\ proc[p].pc = "fee"
    /\ LET l == proc[p]
           d == validate_distribute_on_fee(l.total_tokens, l.share_allocations, ans)
       IN /\ proc' = [proc EXCEPT ![p] = IdleProc]
          /\ ret' = Returns("validate_distribute", l.caller, Anonymous, <<>>, d,
                            [l EXCEPT !.fee = ans.val])
          /\ sent' = NoCall
    /\ UNCHANGED <<store, ncalls, consumed>>

\* ------------------------------------------------------- specification
Next ==
    \/ \E caller \in Callers, id \in Principals : set_token_canister_id(caller, id)
    \/ \E caller \in Callers, id \in Principals : validate_set_token_canister_id(caller, id)
    \/ \E caller \in Callers, a \in Allocations : add_share_allocations(caller, a)
    \/ \E caller \in Callers, a \in Allocations : validate_add_share_allocations(caller, a)
    \/ \E caller \in Callers : reset(caller)
    \/ \E caller \in Callers : validate_reset(caller)
    \/ \E p \in Procs, caller \in Callers : distribute_call(p, caller)
    \/ \E p \in Procs, ans \in BalanceAnswers : distribute_balance_reply(p, ans)
    \/ \E p \in Procs, ans \in FeeAnswers : distribute_fee_reply(p, ans)
    \/ \E p \in Procs, ok \in BOOLEAN : distribute_transfer_reply(p, ok)
    \/ \E p \in Procs, caller \in Callers : validate_distribute_call(p, caller)
    \/ \E p \in Procs, ans \in BalanceAnswers : validate_distribute_balance_reply(p, ans)
    \/ \E p \in Procs, ans \in FeeAnswers : validate_distribute_fee_reply(p, ans)

Spec == Init /\ [][Next]_vars

\* the ledger answers every transfer call: a reply to a pending
\* icrc1_transfer is eventually delivered to the call that awaits it
SpecFair ==
    Spec /\ \A p \in Procs : WF_vars(\E ok \in BOOLEAN : distribute_transfer_reply(p, ok))

\* ------------------------------------------------- the paged list queries
\* A u64 or usize value is a sequence of 16-bit limbs, least significant
\* first: four limbs for u64, two for the usize of a wasm32 build and four
\* for the usize of a 64-bit build.
LimbBase == 65536
PageSize == 100
U64Limbs == 4
UsizeLimbs == {2, 4}

\* the limb values the start indices are drawn from
Limbs == {0, 1, LimbBase - PageSize, LimbBase - 1}
StartIndices == [1..U64Limbs -> Limbs]

\* start_index as usize: the low limbs are kept
AsUsize(x, w) == SubSeq(x, 1, w)

\* x + c limb by limb; the last element of the result is the carry out of
\* the most significant limb
RECURSIVE AddLimbs(_, _)
AddLimbs(x, c) ==
    IF x = <<>> THEN <<c>>
    ELSE <<(Head(x) + c) % LimbBase>> \o AddLimbs(Tail(x), (Head(x) + c) \div LimbBase)

\* x < n for a length n (a length is below LimbBase here)
LessThanLen(x, n) == (\A i \in 2..Len(x) : x[i] = 0) /\ x[1] < n

\* usize::min(x, n)
MinWithLen(x, n) == IF LessThanLen(x, n) THEN x[1] ELSE n

\* Returns the vector of all users and their token allocations
get_all_token_allocations(m) == get_all_share_allocations(m)

\* The body shared by get_shares_list and get_tokens_list, on a build with
\* a usize of w limbs and with or without overflow checks: start_index + 100
\* is computed before start_index is compared with the length.
list_page(allocations, start_index64, w, overflow_checks) ==
    LET start_index == AsUsize(start_index64, w)
        sum == AddLimbs(start_index, PageSize)
        end_index == MinWithLen(SubSeq(sum, 1, w), Len(allocations))
    IN IF sum[w + 1] # 0 /\ overflow_checks THEN "Trap"
       ELSE IF ~LessThanLen(start_index, Len(allocations)) THEN <<>>
       ELSE IF start_index[1] > end_index THEN "Trap"
       ELSE SubSeq(allocations, start_index[1] + 1, end_index)

Answers(op, start_index, result) ==
    [op |-> op, start_index |-> start_index, result |-> result]

get_shares_list(start_index) ==
    /\ ncalls < MaxQueries
    /\ ncalls' = ncalls + 1
    /\ \E allocations \in get_all_share_allocations(SHARE_ALLOCATIONS),
          w \in UsizeLimbs, overflow_checks \in BOOLEAN :
          ret' = Answers("get_shares_list", start_index,
                         list_page(allocations, start_index, w, overflow_checks))
    /\ UNCHANGED <<store, proc, sent, consumed>>

get_tokens_list(start_index) ==
    /\ ncalls < MaxQueries
    /\ ncalls' = ncalls + 1
    /\ \E allocations \in get_all_token_allocations(TOKEN_ALLOCATIONS),
          w \in UsizeLimbs, overflow_checks \in BOOLEAN :
          ret' = Answers("get_tokens_list", start_index,
                         list_page(allocations, start_index, w, overflow_checks))
    /\ UNCHANGED <<store, proc, sent, consumed>>

\* the collections the queries are run on: any set of participants, each
\* with the amount 1 (the queries do not look at the amounts)
Maps == UNION {[d -> {1}] : d \in SUBSET Principals}

InitPaging ==
    /\ TOKEN_PID = Anonymous
    /\ SHARE_ALLOCATIONS \in Maps
    /\ TOKEN_ALLOCATIONS \in Maps
    /\ INTERRUPTED_DISTRIBUTIONS = EmptyMap
    /\ proc = [p \in Procs |-> IdleProc]
    /\ ret = NoRet
    /\ sent = NoCall
    /\ ncalls = 0
    /\ consumed = EmptyMap

NextPaging ==
    \/ \E start_index \in StartIndices : get_shares_list(start_index)
    \/ \E start_index \in StartIndices : get_tokens_list(start_index)

SpecPaging == InitPaging /\ [][NextPaging]_vars

\* ================================================================ claims
ValidateOps == {"validate_set_token_canister_id", "validate_add_share_allocations",
                "validate_reset", "validate_distribute"}

\* the last message execution was the return of a distribute call that had
\* passed its checks and entered the loop
RunReturned == ret.op = "distribute" /\ ret.result # "Suspended"
                 /\ ret.run.token_per_share > 0

\* the distribute calls that entered the loop: those in flight and the one
\* that has just returned
StartedRuns ==
    {proc[p] : p \in {q \in Procs : proc[q].op = "distribute" /\ proc[q].pc = "transfer"}}
        \cup (IF RunReturned THEN {ret.run} ELSE {})

RECURSIVE SumPayouts(_, _)
SumPayouts(token_per_share, s) ==
    IF s = <<>> THEN 0 ELSE token_per_share * Head(s)[2] + SumPayouts(token_per_share, Tail(s))

\* C1: when a distribute run that entered the loop returns, and no
\* add_share_allocations ran during it, every participant a transfer was
\* attempted for is absent from SHARE_ALLOCATIONS.
C1_AttemptedRemoved ==
    (RunReturned /\ ~ret.run.added) =>
        \A u \in ret.run.attempted : u \notin DOMAIN SHARE_ALLOCATIONS

\* C2: a distribute run issues at most 3 transfer calls to the ledger for
\* one participant.
C2_AtMostThreeTransfers ==
    \A p \in Procs : proc[p].calls <= 3

\* C3: no identity is in both TOKEN_ALLOCATIONS and INTERRUPTED_DISTRIBUTIONS.
C3_NeverBoth ==
    (DOMAIN TOKEN_ALLOCATIONS) \cap (DOMAIN INTERRUPTED_DISTRIBUTIONS) = {}

\* C4: a distribute call that entered the loop returns Ok, and by then a
\* transfer has been attempted for every participant of its snapshot.
C4_RunReturnsOk ==
    RunReturned =>
        /\ ret.result = "Ok"
        /\ ret.run.attempted = Users(ret.run.share_allocations, 1)

C4_Witness ==
    /\ RunReturned
    /\ TOKEN_PID # Anonymous
    /\ Len(ret.run.share_allocations) = 2
    /\ ret.run.share_allocations[1][1] \in ret.run.parked
    /\ ret.run.share_allocations[2][1] \in ret.run.succeeded

\* C5: in a run that entered the loop the payouts sum to at most
\* balance - fee * entries, with equality exactly when that amount is
\* divisible by the share sum; the confirmed transfers and their fees never
\* exceed the balance.
C5_PayoutsWithinBalance ==
    \A l \in StartedRuns :
        LET s == l.share_allocations
            avail == l.total_tokens - l.fee * Len(s)
            sum == SumPayouts(l.token_per_share, s)
        IN /\ avail >= 0
           /\ sum <= avail
           /\ (sum = avail) <=> (avail % SumShares(s) = 0)
           /\ l.paid <= l.total_tokens

C5_Witness ==
    /\ RunReturned
    /\ ret.run.paid > 0
    /\ ret.run.fee > 0
    /\ \A i \in 1..Len(ret.run.share_allocations) : ret.run.share_allocations[i][2] > 0
    /\ SumPayouts(ret.run.token_per_share, ret.run.share_allocations)
         < ret.run.total_tokens - ret.run.fee * Len(ret.run.share_allocations)

\* C6: each synchronous mutating entry point returns what its validate_*
\* twin returns for the same caller and argument.
C6_TwinsAgree ==
    /\ ret.op = "set_token_canister_id" =>
         ret.result = validate_set_token_canister_id_result(ret.caller, ret.id)
    /\ ret.op = "add_share_allocations" =>
         ret.result = validate_add_share_allocations_result(ret.caller, ret.allocations)
    /\ ret.op = "reset" => ret.result = validate_reset_result(ret.caller)

\* what distribute does where validate_distribute returns `d`
AsDistribute(d) == IF d = "Ok" THEN "proceed" ELSE d

\* C7: at each of its message executions before the loop, on the same
\* caller, state and ledger answer, validate_distribute returns an error
\* exactly when distribute returns it, and returns Ok exactly when distribute
\* enters the loop.
C7_ValidateDistributeAgrees ==
    /\ \A caller \in Callers :
          validate_distribute_entry(caller, TOKEN_PID) = distribute_entry(caller, TOKEN_PID)
    /\ \A p \in Procs : proc[p].pc = "balance" =>
          \A ans \in BalanceAnswers, s \in get_all_share_allocations(SHARE_ALLOCATIONS) :
             validate_distribute_on_balance(ans, s, TOKEN_PID)
                = distribute_on_balance(ans, s, TOKEN_PID)
    /\ \A p \in Procs : proc[p].pc = "fee" =>
          \A ans \in FeeAnswers :
             AsDistribute(validate_distribute_on_fee(proc[p].total_tokens,
                                                     proc[p].share_allocations, ans))
                = distribute_on_fee(proc[p].total_tokens, proc[p].share_allocations, ans)

C7_Witness ==
    \E p, q \in Procs :
        /\ proc[p].op = "distribute" /\ proc[p].pc = "transfer"
        /\ proc[q].op = "validate_distribute" /\ proc[q].pc = "fee"
        /\ proc[q].caller = proc[p].caller
        /\ proc[q].total_tokens = proc[p].total_tokens
        /\ proc[q].share_allocations = proc[p].share_allocations
        /\ validate_distribute_on_fee(proc[q].total_tokens, proc[q].share_allocations,
                                      Answer(proc[p].fee)) = "Ok"

\* C8: a message execution of a validate_* entry point leaves the ledger id
\* and the three maps unchanged and issues no transfer; only
\* validate_distribute calls the ledger at all.
C8_ValidateFrame ==
    [][ret'.op \in ValidateOps =>
         /\ store' = store
         /\ sent'.method # "icrc1_transfer"
         /\ (ret'.op # "validate_distribute" => sent' = NoCall)]_vars

C8_Witness ==
    /\ ret.op = "validate_distribute"
    /\ ret.result = "Ok"
    /\ SHARE_ALLOCATIONS # EmptyMap
    /\ TOKEN_PID # Anonymous

\* C9: a message execution of distribute that returns an error (or traps)
\* has attempted no transfer and leaves the ledger id and the three maps
\* unchanged, and so do the message executions of distribute before its loop.
C9_ErrorLeavesState ==
    [][ret'.op = "distribute" =>
         /\ ret'.result \notin {"Ok", "Suspended"} =>
               /\ store' = store
               /\ sent' = NoCall
               /\ ret'.run.attempted = {}
         /\ sent'.method \in {"icrc1_balance_of", "icrc1_fee"} => store' = store]_vars

C9_Witness ==
    /\ ret.op = "distribute"
    /\ ret.result = "Unknown:zero"
    /\ Len(ret.run.share_allocations) > 0
    /\ TOKEN_ALLOCATIONS # EmptyMap

\* C10: distribute or validate_distribute on a non-empty snapshot whose
\* shares sum to zero returns an error value: it does not trap.
C10_ZeroShareSumFailsClosed ==
    (/\ ret.op \in {"distribute", "validate_distribute"}
     /\ ret.result # "Suspended"
     /\ Len(ret.run.share_allocations) >= 1
     /\ SumShares(ret.run.share_allocations) = 0) =>
        /\ ret.result \notin {"Ok", "Trap"}
        /\ ret.run.attempted = {}

\* C11: every SHARE_ALLOCATIONS entry has a strictly positive share and a
\* participant that is not anonymous, so a non-empty map never sums to zero.
C11_SharesPositive ==
    \A u \in DOMAIN SHARE_ALLOCATIONS : u # Anonymous /\ SHARE_ALLOCATIONS[u] > 0

\* C12: a message execution for a caller that is not a controller returns
\* Unauthorized, changes no store and calls no ledger; every change of a
\* store is made for a controller.
C12_OnlyControllers ==
    [][/\ (ret'.op # "none" /\ ~is_controller(ret'.caller)) =>
            /\ ret'.result = "Unauthorized"
            /\ store' = store
            /\ proc' = proc
            /\ sent' = NoCall
       /\ store' # store => is_controller(ret'.caller)]_vars

C12_Witness ==
    /\ ret.op = "distribute"
    /\ ret.result = "Unauthorized"
    /\ TOKEN_PID # Anonymous
    /\ SHARE_ALLOCATIONS # EmptyMap

\* C13: after a reset by a controller the ledger id is anonymous and the
\* three maps are empty, as in the initial state.
C13_ResetClearsAll ==
    (ret.op = "reset" /\ ret.result = "Ok") =>
        /\ TOKEN_PID = Anonymous
        /\ SHARE_ALLOCATIONS = EmptyMap
        /\ TOKEN_ALLOCATIONS = EmptyMap
        /\ INTERRUPTED_DISTRIBUTIONS = EmptyMap

\* C15: no reset takes effect while a distribute call is suspended in its
\* loop, between its first transfer and its return.
C15_NoResetInsideRun ==
    (ret.op = "reset" /\ ret.result = "Ok") =>
        \A p \in Procs : ~(proc[p].op = "distribute" /\ proc[p].pc = "transfer")

\* C14: a share entry is the subject of transfer attempts in at most one
\* distribute run, unless add_share_allocations puts it again.
C14_AttemptedOnce ==
    \A u \in DOMAIN consumed : consumed[u] <= 1

\* C20: a distribute run does not remove or change a share entry that
\* add_share_allocations put after the run took its snapshot.
C20_KeepsNewShares ==
    [][\A p \in Procs :
         (proc[p].op = "distribute" /\ proc[p].pc = "transfer"
            /\ ret'.op = "distribute" /\ proc'[p] # proc[p]) =>
         \A u \in (DOMAIN proc[p].inserted) \cap (DOMAIN SHARE_ALLOCATIONS) :
             /\ u \in DOMAIN SHARE_ALLOCATIONS'
             /\ SHARE_ALLOCATIONS'[u] = SHARE_ALLOCATIONS[u]]_vars

\* tokensPerShare x share of participant u, from the balance, the fee and
\* the snapshot of run r
ExpectedAmount(r, u) ==
    LET s == r.share_allocations
        j == CHOOSE k \in 1..Len(s) : s[k][1] = u
    IN IF SumShares(s) = 0 THEN 0
       ELSE ((r.total_tokens - r.fee * Len(s)) \div SumShares(s)) * s[j][2]

\* the locals of the distribute call of slot p after its step
RunAfter(p) == IF proc'[p].pc = "transfer" THEN proc'[p] ELSE ret'.run

\* C16: in every step of a distribute run past its checks, the amount of a
\* transfer it issues, of a TOKEN_ALLOCATIONS receipt it writes and of an
\* INTERRUPTED_DISTRIBUTIONS entry it writes is
\* ((balance - fee * entries) div shareSum) * the participant's share, and
\* the rate kept by the run does not change between steps.
C16_AmountsFollowRate ==
    [][\A p \in Procs :
         (/\ proc[p].op = "distribute" /\ proc[p].pc \in {"fee", "transfer"}
          /\ ret'.op = "distribute" /\ proc'[p] # proc[p]
          /\ ret'.result \in {"Ok", "Suspended"}) =>
         LET r == RunAfter(p)
         IN /\ r.total_tokens = proc[p].total_tokens
            /\ r.share_allocations = proc[p].share_allocations
            /\ proc[p].pc = "transfer" =>
                  /\ r.token_per_share = proc[p].token_per_share
                  /\ r.fee = proc[p].fee
            /\ sent'.method = "icrc1_transfer" =>
                  /\ sent'.to \in Users(r.share_allocations, 1)
                  /\ sent'.amount = ExpectedAmount(r, sent'.to)
            /\ \A u \in r.succeeded \ proc[p].succeeded :
                  /\ u \in DOMAIN TOKEN_ALLOCATIONS'
                  /\ TOKEN_ALLOCATIONS'[u] = ExpectedAmount(r, u)
            /\ \A u \in r.parked \ proc[p].parked :
                  /\ u \in DOMAIN INTERRUPTED_DISTRIBUTIONS'
                  /\ INTERRUPTED_DISTRIBUTIONS'[u] = ExpectedAmount(r, u)]_vars

\* a run over two participants with shares 1 and 2, balance 4 and fee 0 has
\* returned after paying them 1 and 2
C16_Witness ==
    /\ ret.op = "distribute" /\ ret.result = "Ok"
    /\ ret.run.total_tokens = 4 /\ ret.run.fee = 0
    /\ \E a, b \in Callers :
         /\ a # b
         /\ ret.run.share_allocations \in {<<<<a, 1>>, <<b, 2>>>>, <<<<b, 2>>, <<a, 1>>>>}
         /\ ret.run.succeeded = {a, b}
         /\ a \in DOMAIN TOKEN_ALLOCATIONS /\ TOKEN_ALLOCATIONS[a] = 1
         /\ b \in DOMAIN TOKEN_ALLOCATIONS /\ TOKEN_ALLOCATIONS[b] = 2

\* the entries of map m2 that map m1 does not hold with the same value
Written(m1, m2) == {u \in DOMAIN m2 : u \notin DOMAIN m1 \/ m1[u] # m2[u]}

\* slot p holds a distribute run suspended on a transfer of `a` to u, and
\* this step is the run's handling of the ledger's answer
AnswersTransfer(p, u, a) ==
    /\ proc[p].op = "distribute" /\ proc[p].pc = "transfer"
    /\ ret'.op = "distribute" /\ proc'[p] # proc[p]
    /\ proc[p].share_allocations[proc[p].idx][1] = u
    /\ proc[p].token_per_share * proc[p].share_allocations[proc[p].idx][2] = a

\* C19: a TOKEN_ALLOCATIONS entry (u, a) is written only by the step that
\* handles the ledger's success answer to a transfer of a to u, and an
\* INTERRUPTED_DISTRIBUTIONS entry (u, a) only by the step that handles a
\* failure answer to at least the third transfer of a to u; a run records
\* no participant other than the one whose answer it is handling.
C19_ReceiptsBacked ==
    [][/\ \A u \in Written(TOKEN_ALLOCATIONS, TOKEN_ALLOCATIONS') :
            \E p \in Procs :
               /\ AnswersTransfer(p, u, TOKEN_ALLOCATIONS'[u])
               /\ u \in RunAfter(p).succeeded
       /\ \A u \in Written(INTERRUPTED_DISTRIBUTIONS, INTERRUPTED_DISTRIBUTIONS') :
            \E p \in Procs :
               /\ AnswersTransfer(p, u, INTERRUPTED_DISTRIBUTIONS'[u])
               /\ u \notin RunAfter(p).succeeded
               /\ proc[p].calls >= 3
       /\ \A p \in Procs :
            (/\ proc[p].op = "distribute" /\ ret'.op = "distribute"
             /\ proc'[p] # proc[p] /\ ret'.result \in {"Ok", "Suspended"}
             /\ proc[p].pc \in {"fee", "transfer"}) =>
            \A u \in (RunAfter(p).succeeded \cup RunAfter(p).parked)
                        \ (proc[p].succeeded \cup proc[p].parked) :
                /\ proc[p].pc = "transfer"
                /\ u = proc[p].share_allocations[proc[p].idx][1]
                /\ u \in RunAfter(p).parked => proc[p].calls >= 3]_vars

\* C18: when the ledger answers every transfer call, a distribute run that
\* is suspended on a transfer eventually returns; a run issues a bounded
\* number of transfers per participant; and when a run that entered the
\* loop returns Ok, it has recorded every participant of its snapshot as
\* paid (TOKEN_ALLOCATIONS) or as parked (INTERRUPTED_DISTRIBUTIONS).
C18_RunsReturn ==
    /\ \A p \in Procs :
          (proc[p].op = "distribute" /\ proc[p].pc = "transfer") ~> (proc[p].pc = "idle")
    /\ [](\A p \in Procs : proc[p].calls <= 4)
    /\ []((RunReturned /\ ret.result = "Ok") =>
             /\ ret.run.succeeded \cup ret.run.parked = Users(ret.run.share_allocations, 1)
             /\ ret.run.succeeded \cap ret.run.parked = {})

\* a run returned after the ledger failed every transfer to its participant
C18_Witness ==
    /\ RunReturned /\ ret.result = "Ok"
    /\ TOKEN_PID # Anonymous
    /\ ret.run.calls = 4
    /\ ret.run.parked = Users(ret.run.share_allocations, 1)
    /\ ret.run.parked # {}

\* the page the queries are to return for the 64-bit start index s over a
\* collection of n entries holds min(100, n - s) entries, none when s >= n
PageLen(s, n) ==
    IF LessThanLen(s, n) THEN (IF n - s[1] < PageSize THEN n - s[1] ELSE PageSize) ELSE 0

\* C17: get_shares_list(s) and get_tokens_list(s) never fail, return the
\* empty sequence when s >= n and min(100, n - s) entries when s < n, for
\* every 64-bit s and collection size n.
C17_PagingTotal ==
    /\ ret.op = "get_shares_list" =>
          /\ ret.result # "Trap"
          /\ Len(ret.result) = PageLen(ret.start_index, Cardinality(DOMAIN SHARE_ALLOCATIONS))
    /\ ret.op = "get_tokens_list" =>
          /\ ret.result # "Trap"
          /\ Len(ret.result) = PageLen(ret.start_index, Cardinality(DOMAIN TOKEN_ALLOCATIONS))
============================================================================
